---- MODULE Spec2Model ----
(***************************************************************************)
(* Model of integration_agent/util/print.py: the forward tree printer      *)
(* print_dag and the post-order walker print_dag_in_reverse, with the      *)
(* label rendering and the code-generation accumulator they drive.         *)
(***************************************************************************)
EXTENDS Integers, Sequences, FiniteSets, TLC

\* ------------------------------------------------------------------ bounds
NumNodes == 3
MaxEdges == 3
MaxDepth == 2

\* max_depth: Optional[int] = None
NoLimit == -1

\* ------------------------------------------------------------------ state
VARIABLES
    mode,              \* "forward" (print_dag) or "reverse" (print_dag_in_reverse)
    nodes,             \* graph.nodes(): the node ids, in the graph's order
    succ,              \* graph.successors: node id -> sequence of node ids
    attrs,             \* graph.nodes[n]: the attribute names node n carries
    max_depth,         \* argument max_depth (NoLimit for None)
    to_generate_code,  \* argument to_generate_code
    start,             \* print_dag's current_node_id of the outermost call
    stack,             \* active recursive calls, outermost first
    src_idx,           \* position of the loop over source_nodes
    visited,           \* the visited set threaded through the recursion
    fully_processed,   \* the fully_processed set of one reverse run
    output,            \* lines printed so far
    synth_calls,       \* node ids generate_code was invoked with
    generated_code,    \* the generated_code accumulator
    artifact,          \* contents of generated_code.txt, <<"unwritten">> before the write
    rejected,          \* nodes whose entry returned at "current_node_id in visited"
    status,            \* "init", "running", "done" or "raised"
    failure            \* "none", "AttributeError" or "synthesis"

vars == <<mode, nodes, succ, attrs, max_depth, to_generate_code, start, stack,
          src_idx, visited, fully_processed, output, synth_calls,
          generated_code, artifact, rejected, status, failure>>

graphVars == <<mode, nodes, succ, attrs, max_depth, to_generate_code, start>>

\* graphVars without the node attributes.
readVars == <<mode, nodes, succ, max_depth, to_generate_code, start>>

\* ------------------------------------------------------------ the graph
AttrNames == {"node_type", "content", "dynamic_parts", "extracted_parts", "input_variables"}

RECURSIVE InjSeqs(_, _)
\* The sequences without repetition over S, of length at most k.
InjSeqs(S, k) ==
    IF k = 0 THEN {<<>>}
    ELSE {<<>>} \cup UNION {{<<x>> \o r : r \in InjSeqs(S \ {x}, k - 1)} : x \in S}

RECURSIVE AdjLists(_, _, _)
\* The adjacency of the first m of n nodes, each node's successors in the
\* order the graph returns them, with at most budget edges in all.
AdjLists(n, m, budget) ==
    IF m = 0 THEN {<<>>}
    ELSE UNION {{Append(rest, adj) : rest \in AdjLists(n, m - 1, budget - Len(adj))}
                : adj \in InjSeqs(1..n, budget)}

Graphs(n) == AdjLists(n, n, MaxEdges)

Range(s) == {s[i] : i \in 1..Len(s)}

\* list(graph.successors(current_node_id))
ChildrenAllButLast(n) == SubSeq(succ[n], 1, Len(succ[n]) - 1)
Children(n) == succ[n]

InDegree(n) == Cardinality({m \in Range(nodes) : n \in Range(succ[m])})

\* source_nodes = [n for n in graph.nodes() if graph.in_degree(n) == 0]
SourceNodesByOutDegree == SelectSeq(nodes, LAMBDA n : succ[n] = <<>>)
SourceNodes == SelectSeq(nodes, LAMBDA n : InDegree(n) = 0)

Last(s) == s[Len(s)]
Top == stack[Len(stack)]
Pop(s) == SubSeq(s, 1, Len(s) - 1)

\* ------------------------------------------------------------ rendering
\* "" and [] alike: the empty default of node_attrs.get(name, default).
Blank == <<>>

\* node_attrs.get(a, default): the stored value, or the default when absent.
Get(n, a) == IF a \in attrs[n] THEN <<a, n>> ELSE Blank

\* The node attributes after node n's were read: node_attrs.get(a, default)
\* leaves the mapping as it is (pop or setdefault would not).
AttrsAfterPop(n) == [attrs EXCEPT ![n] = {}]
AttrsAfterRead(n) == attrs

\* node_attrs.get("content", "") is the str "" when the attribute is absent,
\* and "".get("key", "") raises AttributeError.
ContentGetRaises(n) == "content" \notin attrs[n]

ContentKey(n) == <<"key", n>>
ContentValue(n) == <<"value", n>>

\* get_node_label: one line, every field always shown.
GetNodeLabel(n) ==
    <<Get(n, "node_type"), n, Get(n, "dynamic_parts"), Get(n, "extracted_parts"),
      Get(n, "input_variables"), ContentKey(n)>>

\* print_dag's node_label: the input_variables line only when it is truthy.
FwdNodeLabel(n) ==
    <<Get(n, "node_type"), n>>
    \o (IF Get(n, "input_variables") # Blank THEN <<Get(n, "input_variables")>> ELSE <<>>)
    \o <<Get(n, "dynamic_parts"), Get(n, "extracted_parts"), ContentKey(n)>>

Connector(is_last) == IF is_last THEN "\\-- " ELSE "|-- "
Indent(is_last) == IF is_last THEN "    " ELSE "|   "

NodeLine(prefix, is_last, n, label) ==
    [kind |-> "node", prefix |-> prefix, connector |-> Connector(is_last),
     node |-> n, label |-> label]

AlreadyLine(prefix, is_last, n) ==
    [kind |-> "already", prefix |-> prefix, connector |-> Connector(is_last),
     node |-> n, label |-> Blank]

\* generate_code: the prompt is built from the node's attributes and the
\* stripped model output is returned; the text is opaque to the traversal.
SynthInput(n) ==
    <<ContentKey(n), ContentValue(n), Get(n, "dynamic_parts"),
      Get(n, "extracted_parts"), Get(n, "input_variables")>>

GenerateCode(n) == <<"code", SynthInput(n)>>

\* ------------------------------------------------------------ guards
InFullyProcessedNever(n) == FALSE
InFullyProcessed(n) == n \in fully_processed

InVisitedNever(n, v) == FALSE
InVisited(n, v) == n \in v

\* visited.add(current_node_id)
EnterVisitedForgotten(v, n) == v
EnterVisited(v, n) == v \cup {n}

\* visited.remove(current_node_id)
LeaveVisitedForgotten(v, n) == v
LeaveVisited(v, n) == v \ {n}

DepthLimitReachedOffByOne(d) == max_depth # NoLimit /\ d > max_depth
DepthLimitReached(d) == max_depth # NoLimit /\ d >= max_depth

Frame(n, d, prefix, is_last) ==
    [node |-> n, i |-> 1, depth |-> d, prefix |-> prefix, is_last |-> is_last]

Running(m) == mode = m /\ status = "running"

\* ------------------------------------------------------------ call sites
\* The outermost calls: print_dag is called once on its start node, the
\* reverse run once per source node, in graph.nodes() order.
Roots == IF mode = "forward" THEN <<start>> ELSE SourceNodes

\* A call is about to be made: by the loop over the roots (empty stack) or
\* by the loop over the children of the innermost active call.
CallPending ==
    IF stack = <<>> THEN src_idx <= Len(Roots)
    ELSE Top.i <= Len(Children(Top.node))

Callee == IF stack = <<>> THEN Roots[src_idx] ELSE Children(Top.node)[Top.i]
CalleeDepth == IF stack = <<>> THEN 0 ELSE Top.depth + 1
CalleePrefix == IF stack = <<>> THEN <<>> ELSE Append(Top.prefix, Indent(Top.is_last))
CalleeIsLast ==
    IF stack = <<>> THEN src_idx = Len(Roots)
    ELSE Top.i = Len(Children(Top.node))

\* The caller's loop moves on to its next element.
Advanced(st) == IF st = <<>> THEN st ELSE [st EXCEPT ![Len(st)].i = @ + 1]
AdvancedIdx == IF stack = <<>> THEN src_idx + 1 ELSE src_idx

\* The visited set the callee receives: visited=set() for a source walk,
\* the caller's own set for a child.
FreshVisited == {}
CalleeVisited == IF stack = <<>> THEN FreshVisited ELSE visited

\* ------------------------------------------------------------ reverse mode
\* fully_processed.add(current_node_id)
MarkProcessedSkipped(fp, n) == fp
MarkProcessed(fp, n) == fp \cup {n}


\* generated_code += generate_code(current_node_id, graph) + "\n\n"
AccumulatePrepended(acc, n) == <<GenerateCode(n), "\n\n">> \o acc
Accumulate(acc, n) == acc \o <<GenerateCode(n), "\n\n">>

\* What a raising generate_code leaves behind: nothing catches it.
SynthFailureSwallowed(ok) == "running"
SynthFailure(ok) == IF ok THEN "running" ELSE "raised"

RevSkipProcessed ==
    /\ Running("reverse") /\ CallPending
    /\ InFullyProcessed(Callee)
    /\ stack' = Advanced(stack)
    /\ src_idx' = AdvancedIdx
    /\ visited' = CalleeVisited
    /\ UNCHANGED <<graphVars, fully_processed, output, synth_calls,
                   generated_code, artifact, rejected, status, failure>>

RevRejectVisited ==
    /\ Running("reverse") /\ CallPending
    /\ ~InFullyProcessed(Callee)
    /\ InVisited(Callee, CalleeVisited)
    /\ rejected' = Append(rejected, Callee)
    /\ stack' = Advanced(stack)
    /\ src_idx' = AdvancedIdx
    /\ visited' = CalleeVisited
    /\ UNCHANGED <<graphVars, fully_processed, output, synth_calls,
                   generated_code, artifact, status, failure>>

RevDepthLimit ==
    /\ Running("reverse") /\ CallPending
    /\ ~InFullyProcessed(Callee)
    /\ ~InVisited(Callee, CalleeVisited)
    /\ DepthLimitReached(CalleeDepth)
    /\ stack' = Advanced(stack)
    /\ src_idx' = AdvancedIdx
    /\ visited' = LeaveVisited(EnterVisited(CalleeVisited, Callee), Callee)
    /\ UNCHANGED <<graphVars, fully_processed, output, synth_calls,
                   generated_code, artifact, rejected, status, failure>>

RevExpand ==
    /\ Running("reverse") /\ CallPending
    /\ ~InFullyProcessed(Callee)
    /\ ~InVisited(Callee, CalleeVisited)
    /\ ~DepthLimitReached(CalleeDepth)
    /\ visited' = EnterVisited(CalleeVisited, Callee)
    /\ stack' = Append(Advanced(stack),
                       Frame(Callee, CalleeDepth, CalleePrefix, CalleeIsLast))
    /\ src_idx' = AdvancedIdx
    /\ UNCHANGED <<graphVars, fully_processed, output, synth_calls,
                   generated_code, artifact, rejected, status, failure>>

\* Lines 209-215: after the loop over the children, print the node, generate
\* its code when requested, mark it processed and take it off the path.
RevEmit ==
    /\ Running("reverse") /\ stack # <<>> /\ ~CallPending
    /\ LET n == Top.node IN
       IF ContentGetRaises(n)
       THEN /\ status' = "raised" /\ failure' = "AttributeError"
            /\ UNCHANGED <<stack, visited, fully_processed, output,
                           synth_calls, generated_code>>
       ELSE /\ output' = Append(output,
                 NodeLine(Top.prefix, Top.is_last, n, GetNodeLabel(n)))
            /\ \E ok \in (IF to_generate_code THEN BOOLEAN ELSE {TRUE}) :
                 /\ synth_calls' = IF to_generate_code THEN Append(synth_calls, n)
                                   ELSE synth_calls
                 /\ status' = SynthFailure(ok)
                 /\ failure' = IF ok THEN failure ELSE "synthesis"
                 /\ IF ok
                    THEN /\ generated_code' = IF to_generate_code
                                              THEN Accumulate(generated_code, n)
                                              ELSE generated_code
                         /\ fully_processed' = MarkProcessed(fully_processed, n)
                         /\ visited' = LeaveVisited(visited, n)
                         /\ stack' = Pop(stack)
                    ELSE UNCHANGED <<stack, visited, fully_processed, generated_code>>
    /\ attrs' = AttrsAfterRead(Top.node)
    /\ UNCHANGED <<readVars, src_idx, artifact, rejected>>

\* Lines 252-255: after the last source walk, write the artifact.
WriteArtifact == to_generate_code

RevFinish ==
    /\ Running("reverse") /\ stack = <<>> /\ ~CallPending
    /\ artifact' = IF WriteArtifact THEN generated_code ELSE artifact
    /\ status' = "done"
    /\ UNCHANGED <<graphVars, stack, src_idx, visited, fully_processed, output,
                   synth_calls, generated_code, rejected, failure>>

\* ------------------------------------------------------------ forward mode
\* Lines 53-55: the child is already in visited.
FwdAlreadyVisited ==
    /\ Running("forward") /\ stack # <<>> /\ CallPending
    /\ InVisited(Callee, visited)
    /\ output' = Append(output, AlreadyLine(CalleePrefix, CalleeIsLast, Callee))
    /\ stack' = Advanced(stack)
    /\ UNCHANGED <<graphVars, src_idx, visited, fully_processed, synth_calls,
                   generated_code, artifact, rejected, status, failure>>

\* Lines 20-45 of one call of print_dag: render and print the node, add it
\* to visited, and stop there when the depth limit is reached.
FwdEnter ==
    /\ Running("forward") /\ CallPending
    /\ stack # <<>> => ~InVisited(Callee, visited)
    /\ IF ContentGetRaises(Callee)
       THEN /\ status' = "raised" /\ failure' = "AttributeError"
            /\ UNCHANGED <<stack, src_idx, visited, output>>
       ELSE /\ output' = Append(output,
                 NodeLine(CalleePrefix, CalleeIsLast, Callee, FwdNodeLabel(Callee)))
            /\ visited' = EnterVisited(visited, Callee)
            /\ stack' = IF DepthLimitReached(CalleeDepth)
                        THEN Advanced(stack)
                        ELSE Append(Advanced(stack),
                               Frame(Callee, CalleeDepth, CalleePrefix, CalleeIsLast))
            /\ src_idx' = AdvancedIdx
            /\ UNCHANGED <<status, failure>>
    /\ attrs' = AttrsAfterRead(Callee)
    /\ UNCHANGED <<readVars, fully_processed, synth_calls, generated_code,
                   artifact, rejected>>

\* The loop over the children is exhausted: the call returns.
FwdReturn ==
    /\ Running("forward") /\ stack # <<>> /\ ~CallPending
    /\ stack' = Pop(stack)
    /\ UNCHANGED <<graphVars, src_idx, visited, fully_processed, output,
                   synth_calls, generated_code, artifact, rejected, status, failure>>

FwdFinish ==
    /\ Running("forward") /\ stack = <<>> /\ ~CallPending
    /\ status' = "done"
    /\ UNCHANGED <<graphVars, stack, src_idx, visited, fully_processed, output,
                   synth_calls, generated_code, artifact, rejected, failure>>

\* ------------------------------------------------------------ specification
Unwritten == <<"unwritten">>

WellFormedAttrs(n) == [m \in 1..n |-> AttrNames]

InitRun ==
    /\ stack = <<>> /\ src_idx = 1
    /\ visited = {} /\ fully_processed = {}
    /\ output = <<>> /\ synth_calls = <<>> /\ generated_code = <<>>
    /\ artifact = Unwritten /\ rejected = <<>>
    /\ status = "running" /\ failure = "none"

InitGraph(n) ==
    /\ nodes = [i \in 1..n |-> i]
    /\ succ \in Graphs(n)
    /\ max_depth \in {NoLimit} \cup (0..MaxDepth)
    /\ \/ mode = "reverse" /\ to_generate_code \in BOOLEAN /\ start = 0
       \/ mode = "forward" /\ to_generate_code = FALSE /\ start \in 1..n

\* Any graph within the bounds whose nodes carry every attribute, either mode,
\* any max_depth; graph.nodes() is taken in the order 1..n, which loses
\* nothing because node ids are opaque.
Init ==
    /\ \E n \in 0..NumNodes : InitGraph(n) /\ attrs = WellFormedAttrs(n)
    /\ InitRun

Next ==
    \/ RevSkipProcessed \/ RevRejectVisited \/ RevDepthLimit \/ RevExpand
    \/ RevEmit \/ RevFinish
    \/ FwdAlreadyVisited \/ FwdEnter \/ FwdReturn \/ FwdFinish

Spec == Init /\ [][Next]_vars

\* Graphs with a node that lacks one of the expected attributes, or all of
\* them.
MissingSets == {{a} : a \in AttrNames} \cup {AttrNames}

MalformedAttrs(n) ==
    {[WellFormedAttrs(n) EXCEPT ![m] = AttrNames \ missing] :
        m \in 1..n, missing \in MissingSets}

InitAttrs ==
    /\ \E n \in 0..NumNodes : InitGraph(n) /\ attrs \in MalformedAttrs(n)
    /\ InitRun

SpecAttrs == InitAttrs /\ [][Next]_vars

\* Graphs that contain a cycle a -> b -> c -> a: the cycle's edges, joined to
\* any graph of at most MaxEdges - 1 further edges on up to one node more
\* than NumNodes. The nodes of a cycle are never source nodes, so their
\* place in graph.nodes() does not matter and they are taken to be 1, 2, 3.
\* The runs are reverse runs that only print (to_generate_code = False).
WithEdge(g, m, n, front) ==
    IF n \in Range(g[m]) THEN g
    ELSE [g EXCEPT ![m] = IF front THEN <<n>> \o @ ELSE Append(@, n)]

WithCycle(g, a, b, c, front) ==
    WithEdge(WithEdge(WithEdge(g, a, b, front), b, c, front), c, a, front)

InitCycle ==
    /\ \E n \in 3..(NumNodes + 1) :
         /\ nodes = [i \in 1..n |-> i]
         /\ attrs = WellFormedAttrs(n)
         /\ \E g \in AdjLists(n, n, MaxEdges - 1), front \in BOOLEAN :
              succ = WithCycle(g, 1, 2, 3, front)
    /\ max_depth \in {NoLimit} \cup (0..(MaxDepth + 1))
    /\ mode = "reverse" /\ to_generate_code = FALSE /\ start = 0
    /\ InitRun

NextReverse ==
    \/ RevSkipProcessed \/ RevRejectVisited \/ RevDepthLimit \/ RevExpand
    \/ RevEmit \/ RevFinish

\* The run is one sequential computation: while a step is possible, one is
\* taken.
SpecCycle == InitCycle /\ [][NextReverse]_vars /\ WF_vars(NextReverse)

\* ------------------------------------------------------------ vocabulary
NodeSet == Range(nodes)
Edge(m, n) == n \in Range(succ[m])

RECURSIVE ReachSet(_)
\* The nodes reachable from a node of S by zero or more edges.
ReachSet(S) ==
    LET T == S \cup {n \in NodeSet : \E m \in S : Edge(m, n)}
    IN IF T = S THEN S ELSE ReachSet(T)

\* The nodes reachable from n by one or more edges.
Descendants(n) == ReachSet(Range(succ[n]))

Acyclic == \A n \in NodeSet : n \notin Descendants(n)

InDegreeZero == {n \in NodeSet : \A m \in NodeSet : ~Edge(m, n)}

\* The nodes printed with their label, in print order.
NodeLines == SelectSeq(output, LAMBDA l : l.kind = "node")
EmitSeq == [i \in 1..Len(NodeLines) |-> NodeLines[i].node]
Emitted == Range(EmitSeq)

Count(s, x) == Cardinality({i \in 1..Len(s) : s[i] = x})
NoDuplicates(s) == \A i, j \in 1..Len(s) : s[i] = s[j] => i = j

RECURSIVE Blocks(_)
\* The blocks of the nodes of s, each followed by its blank line.
Blocks(s) ==
    IF s = <<>> THEN <<>>
    ELSE <<<<"code", SynthInput(s[1])>>, "\n\n">> \o Blocks(Tail(s))

ReverseDone == mode = "reverse" /\ status = "done"

Terminated == status \in {"done", "raised"}

\* ------------------------------------------------------------ C1
\* C1 as stated: when a reverse run has returned, whatever max_depth was,
\* every node reachable from an in-degree-0 node has been printed exactly
\* once and, when code generation is requested, synthesized exactly once.
C1_EveryDepth ==
    ReverseDone =>
        \A n \in ReachSet(InDegreeZero) :
            /\ Count(EmitSeq, n) = 1
            /\ to_generate_code => Count(synth_calls, n) = 1

\* C1 amended: the same for a run without a depth limit (max_depth = None)
\* that returned normally.
C1_EachReachableOnce ==
    (ReverseDone /\ max_depth = NoLimit) =>
        \A n \in ReachSet(InDegreeZero) :
            /\ Count(EmitSeq, n) = 1
            /\ to_generate_code => Count(synth_calls, n) = 1

C1_Witness ==
    /\ ReverseDone /\ max_depth = NoLimit /\ to_generate_code
    /\ ~Acyclic
    /\ Cardinality(ReachSet(InDegreeZero)) = 3

\* ------------------------------------------------------------ C2
\* C2 as stated: on an acyclic graph every node reachable from an emitted
\* node N (other than N) is emitted, and earlier than N.
C2_AnyDepth ==
    (mode = "reverse" /\ Acyclic) =>
        \A i \in 1..Len(EmitSeq) : \A m \in Descendants(EmitSeq[i]) :
            \E j \in 1..(i - 1) : EmitSeq[j] = m

\* C2 amended: the same when the run has no depth limit.
C2_PostOrder ==
    (mode = "reverse" /\ Acyclic /\ max_depth = NoLimit) =>
        \A i \in 1..Len(EmitSeq) : \A m \in Descendants(EmitSeq[i]) :
            \E j \in 1..(i - 1) : EmitSeq[j] = m

C2_Witness ==
    /\ ReverseDone /\ Acyclic /\ max_depth = NoLimit
    /\ \E n \in Emitted : Cardinality(Descendants(n)) = 2

\* ------------------------------------------------------------ C3
\* A call is about to enter a node that is already in fully_processed.
EntersProcessed == Running("reverse") /\ CallPending /\ Callee \in fully_processed

\* C3: no node is printed or synthesized more than once; a call entering a
\* node of fully_processed returns at once, printing nothing and invoking
\* no synthesis; and fully_processed is one set for the whole run: it holds
\* only emitted nodes and no source walk drops a node from it.
C3_AtMostOnce ==
    /\ [](mode = "reverse" =>
            /\ NoDuplicates(EmitSeq) /\ NoDuplicates(synth_calls)
            /\ fully_processed \subseteq Emitted)
    /\ [][/\ fully_processed \subseteq fully_processed'
          /\ EntersProcessed =>
               /\ output' = output /\ synth_calls' = synth_calls
               /\ generated_code' = generated_code
               /\ fully_processed' = fully_processed
               /\ stack' = Advanced(stack) /\ src_idx' = AdvancedIdx]_vars

\* A finished run on an acyclic graph in which an emitted node has two
\* emitted predecessors: its second entry found it in fully_processed.
C3_Witness ==
    /\ ReverseDone /\ Acyclic /\ max_depth = NoLimit
    /\ \E n \in Emitted : Cardinality({m \in Emitted : Edge(m, n)}) >= 2

\* ------------------------------------------------------------ C4
\* The calls of generate_code that returned: all of them, but the last one
\* when it raised.
Returned(calls) ==
    IF failure = "synthesis" THEN SubSeq(calls, 1, Len(calls) - 1) ELSE calls

\* C4: with code generation requested, generate_code is invoked on the
\* printed nodes in print order, once per node; the accumulator holds the
\* returned blocks in that order, and the artifact, once written, is the
\* blocks of the whole emission sequence in that order.
C4_SynthesisFollowsEmission ==
    mode = "reverse" =>
        /\ synth_calls = (IF to_generate_code THEN EmitSeq ELSE <<>>)
        /\ NoDuplicates(synth_calls)
        /\ generated_code = Blocks(Returned(synth_calls))
        /\ artifact # Unwritten =>
             /\ to_generate_code /\ status = "done"
             /\ artifact = Blocks(EmitSeq)

C4_Witness ==
    /\ ReverseDone /\ to_generate_code /\ artifact # Unwritten
    /\ Len(EmitSeq) = 3

\* ------------------------------------------------------------ C5
\* C5: when generate_code raises for node N the run ends raised: N is the
\* last node printed and the last one synthesis was invoked on, N is not
\* in fully_processed, no block of N was accumulated, no artifact is
\* written, and no step follows.
C5_SynthesisFailureAborts ==
    /\ [](failure = "synthesis" =>
            /\ status = "raised"
            /\ synth_calls # <<>> /\ Last(synth_calls) = Last(EmitSeq)
            /\ Last(synth_calls) \notin fully_processed
            /\ generated_code = Blocks(SubSeq(synth_calls, 1, Len(synth_calls) - 1))
            /\ artifact = Unwritten)
    /\ [][failure # "synthesis"]_vars

C5_Witness ==
    /\ mode = "reverse" /\ failure = "synthesis"
    /\ Len(EmitSeq) = 2 /\ Len(stack) = 2

\* ------------------------------------------------------------ C6
\* C6 as stated: whatever attributes a node lacks, a run ends in failure
\* only through the synthesis call.
C6_OnlySynthesisFails ==
    /\ status = "raised" => failure = "synthesis"
    /\ failure \in {"none", "synthesis"}

\* ------------------------------------------------------------ C7
\* The sets {a, b, c} of three nodes on a cycle a -> b -> c -> a.
Cycles3 ==
    {{t[1], t[2], t[3]} :
        t \in {u \in NodeSet \X NodeSet \X NodeSet :
                 /\ u[1] < u[2] /\ u[1] < u[3] /\ u[2] # u[3]
                 /\ Edge(u[1], u[2]) /\ Edge(u[2], u[3]) /\ Edge(u[3], u[1])}}

\* This step is the first in which a node of T is re-entered and returns at
\* "current_node_id in visited".
FirstRejection(T) ==
    /\ rejected' # rejected
    /\ Last(rejected') \in T
    /\ Range(rejected) \cap T = {}

\* C7 as stated: when a node of the cycle is first rejected as already
\* visited, exactly two of the cycle's three nodes have been emitted.
C7_ExactlyTwo ==
    [][\A T \in Cycles3 : FirstRejection(T) => Cardinality(T \cap Emitted) = 2]_vars

\* C7 amended: when a node of the cycle is first rejected as already visited
\* that node has not been emitted, so at most two of the three have been,
\* and none of the three when the run has no depth limit; the recursion
\* never holds a node twice, and the run terminates.
C7_CycleBroken ==
    /\ [][\A T \in Cycles3 : FirstRejection(T) =>
            /\ Last(rejected') \notin Emitted
            /\ Cardinality(T \cap Emitted) <= 2
            /\ max_depth = NoLimit => T \cap Emitted = {}]_vars
    /\ [](NoDuplicates([i \in 1..Len(stack) |-> stack[i].node]))
    /\ <>Terminated

\* A node of a cycle has been rejected as already visited and the run went
\* on to finish.
C7_Witness ==
    /\ ReverseDone
    /\ \E T \in Cycles3 : Range(rejected) \cap T # {} /\ T \subseteq Emitted

\* ------------------------------------------------------------ C8
\* The child the loop of print_dag is looking at is already in visited.
MeetsVisited == Running("forward") /\ stack # <<>> /\ CallPending /\ Callee \in visited

\* C8: in a forward walk no node is printed with its label, nor has its
\* successors iterated, more than once; and a step that finds its child in
\* visited prints exactly one "(Already visited)" line for that child and
\* enters no call.
C8_ExpandedOnce ==
    /\ [](mode = "forward" =>
            /\ NoDuplicates(EmitSeq)
            /\ NoDuplicates([i \in 1..Len(stack) |-> stack[i].node])
            /\ \A i \in 1..Len(stack) : stack[i].node \in Emitted)
    /\ [][MeetsVisited =>
            /\ output' = Append(output, AlreadyLine(CalleePrefix, CalleeIsLast, Callee))
            /\ Len(stack') = Len(stack)
            /\ visited' = visited]_vars

C8_Witness ==
    /\ mode = "forward" /\ status = "done"
    /\ Len(EmitSeq) = 3
    /\ Len(output) = 4

\* ------------------------------------------------------------ C9
\* The depth a line is printed at: one indentation unit per level.
LineDepth(l) == Len(l.prefix)

\* A call of print_dag is about to be entered at depth max_depth.
EntersAtLimit ==
    /\ Running("forward") /\ CallPending /\ CalleeDepth = max_depth
    /\ stack # <<>> => Callee \notin visited

\* C9: with max_depth = d no line is printed below depth d and no node at
\* depth d or more has its successors iterated; a node entered at depth d is
\* still printed with its label, and the call returns without iterating its
\* successors; with max_depth = 0 the finished walk printed the start
\* node's line and nothing else.
C9_DepthLimit ==
    /\ []((mode = "forward" /\ max_depth # NoLimit) =>
            /\ \A i \in 1..Len(output) : LineDepth(output[i]) <= max_depth
            /\ \A i \in 1..Len(stack) : stack[i].depth < max_depth
            /\ (max_depth = 0 /\ status = "done") =>
                 output = <<NodeLine(<<>>, TRUE, start, FwdNodeLabel(start))>>)
    /\ [][EntersAtLimit =>
            /\ output' = Append(output,
                 NodeLine(CalleePrefix, CalleeIsLast, Callee, FwdNodeLabel(Callee)))
            /\ Len(stack') = Len(stack)]_vars

\* A finished walk limited to depth 1 that printed a node at depth 1 whose
\* successors were left out.
C9_Witness ==
    /\ mode = "forward" /\ status = "done" /\ max_depth = 1
    /\ \E i \in 1..Len(output) :
         /\ output[i].kind = "node" /\ LineDepth(output[i]) = 1
         /\ \E c \in Range(succ[output[i].node]) : c \notin Emitted

\* ------------------------------------------------------------ C10
\* The graph is exactly a -> b, a -> c, b -> c on the three nodes a, b, c.
IsDiamond(a, b, c) ==
    /\ NodeSet = {a, b, c} /\ Cardinality({a, b, c}) = 3
    /\ Range(succ[a]) = {b, c} /\ succ[b] = <<c>> /\ succ[c] = <<>>

\* C10: on that graph, without a depth limit, the finished reverse run
\* printed exactly c, b, a, whichever way a's successors are ordered.
C10_DiamondOrder ==
    \A a, b, c \in NodeSet :
        (ReverseDone /\ max_depth = NoLimit /\ IsDiamond(a, b, c)) =>
            EmitSeq = <<c, b, a>>

\* The order in which the shared node is reached directly first.
C10_Witness ==
    \E a, b, c \in NodeSet :
        /\ ReverseDone /\ max_depth = NoLimit /\ IsDiamond(a, b, c)
        /\ succ[a] = <<c, b>>

\* ------------------------------------------------------------ C11
\* The graph is exactly the three nodes s1, s2, t with the one edge s2 -> t.
IsTwoSources(s1, s2, t) ==
    /\ NodeSet = {s1, s2, t} /\ Cardinality({s1, s2, t}) = 3
    /\ succ[s1] = <<>> /\ succ[s2] = <<t>> /\ succ[t] = <<>>

\* The finished run printed s1, s2 and t once each, t before s2.
TwoSourcesEmitted(s1, s2, t) ==
    /\ Count(EmitSeq, s1) = 1 /\ Count(EmitSeq, s2) = 1 /\ Count(EmitSeq, t) = 1
    /\ \E i, j \in 1..Len(EmitSeq) : i < j /\ EmitSeq[i] = t /\ EmitSeq[j] = s2

\* The loop over the source nodes is about to start a walk.
StartsWalk == Running("reverse") /\ stack = <<>> /\ CallPending

\* C11 as stated: on the graph S1, S2 -> T a finished reverse run, whatever
\* max_depth was, has emitted S1, S2 and T once each, T before S2.
C11_AnyDepth ==
    \A s1, s2, t \in NodeSet :
        (ReverseDone /\ IsTwoSources(s1, s2, t)) => TwoSourcesEmitted(s1, s2, t)

\* C11 amended: on the graph S1, S2 -> T a reverse run that returns normally
\* with no depth limit, or with max_depth of at least 2, has emitted S1, S2
\* and T once each, T before S2; and each source walk starts with a visited
\* set that holds nothing but, once entered, the source itself.
C11_TwoSources ==
    /\ [](\A s1, s2, t \in NodeSet :
            (ReverseDone /\ IsTwoSources(s1, s2, t)
               /\ (max_depth = NoLimit \/ max_depth >= 2))
            => TwoSourcesEmitted(s1, s2, t))
    /\ [][(StartsWalk /\ \E s1, s2, t \in NodeSet : IsTwoSources(s1, s2, t))
            => visited' \subseteq {Callee}]_vars

\* The walk of S2 came first and the run finished under max_depth = 2.
C11_Witness ==
    \E s1, s2, t \in NodeSet :
        /\ ReverseDone /\ IsTwoSources(s1, s2, t) /\ max_depth = 2
        /\ s2 < s1 /\ EmitSeq = <<t, s2, s1>>

\* ------------------------------------------------------------ C12
\* The steps one expansion of node n takes: a call per successor, and the
\* step that ends it (the emission, or the return of print_dag).
Work(n) == Len(succ[n]) + 1

RECURSIVE SumWork(_)
SumWork(S) ==
    IF S = {} THEN 0
    ELSE LET n == CHOOSE x \in S : TRUE IN Work(n) + SumWork(S \ {n})

RECURSIVE PendingWork(_)
\* The steps left to the active calls of st: their remaining child calls and
\* the step that ends each.
PendingWork(st) ==
    IF st = <<>> THEN 0
    ELSE (Len(succ[Last(st).node]) - Last(st).i + 1) + 1 + PendingWork(Pop(st))

StackNodes == {stack[i].node : i \in 1..Len(stack)}

\* An upper bound on the steps a run can still take: the root calls left,
\* the steps left to the active calls, one expansion of every node that may
\* still be expanded (pool), and the step that ends the run.
Rank(pool) ==
    (Len(Roots) - src_idx + 1) + PendingWork(stack) + SumWork(pool)
    + (IF Terminated THEN 0 ELSE 1)

RevRank == Rank(NodeSet \ (fully_processed \cup StackNodes))

\* A call is about to re-enter a node that is on the active recursion path.
ReentersPath ==
    /\ Running("reverse") /\ CallPending
    /\ Callee \in StackNodes /\ Callee \notin fully_processed

\* C12: a reverse run terminates on every graph, cyclic ones and self-loops
\* included, under any max_depth: every step lowers a bound on the steps
\* left, which is never negative, and a run that has neither returned nor
\* raised can take a step; a call re-entering a node of the active path
\* returns at once without entering it, so the path never holds a node
\* twice and is no longer than the number of nodes.
C12_ReverseTerminates ==
    /\ [](mode = "reverse" =>
            /\ RevRank >= 0
            /\ Terminated \/ ENABLED NextReverse
            /\ NoDuplicates([i \in 1..Len(stack) |-> stack[i].node])
            /\ Len(stack) <= Len(nodes))
    /\ [][mode = "reverse" => RevRank' < RevRank]_vars
    /\ [][ReentersPath =>
            /\ Len(stack') = Len(stack) /\ stack' = Advanced(stack)
            /\ output' = output /\ visited' = visited]_vars

\* A finished run that met a self-loop: the node was re-entered from itself,
\* rejected, and emitted afterwards.
C12_Witness ==
    /\ ReverseDone
    /\ \E n \in Emitted : Edge(n, n) /\ n \in Range(rejected)

\* ------------------------------------------------------------ C13
FwdRank == Rank(NodeSet \ visited)

\* C13: a forward walk terminates on every graph under any max_depth: every
\* step lowers a bound on the steps left, which is never negative, and a walk
\* that has neither returned nor raised can take a step; visited never
\* loses a node, and a node is printed with its label only when it was not
\* in visited, after which it is.
C13_ForwardTerminates ==
    /\ [](mode = "forward" =>
            /\ FwdRank >= 0
            /\ Terminated \/ ENABLED Next
            /\ Emitted = visited)
    /\ [][mode = "forward" =>
            /\ FwdRank' < FwdRank
            /\ visited \subseteq visited'
            /\ \A n \in Emitted' \ Emitted : n \notin visited /\ n \in visited']_vars

\* A finished walk on a graph with a cycle through the start node that
\* printed three nodes and met a visited one twice.
C13_Witness ==
    /\ mode = "forward" /\ status = "done" /\ max_depth = NoLimit
    /\ start \in Descendants(start)
    /\ Cardinality(visited) = 3

C15_PathRelative ==
    /\ [](mode = "reverse" =>
            /\ visited = StackNodes
            /\ Cardinality(visited) = Len(stack)
            /\ (stack = <<>> => visited = {}))
    /\ [][mode = "reverse" =>
            /\ Len(stack') > Len(stack) =>
                 /\ Callee \notin visited
                 /\ visited' = visited \cup {Callee}
            /\ Len(stack') < Len(stack) =>
                 /\ Top.node \in visited
                 /\ visited' = visited \ {Top.node}
            /\ Len(stack') = Len(stack) => visited' = visited]_vars

\* The second source walk is two calls deep after the first walk returned
\* and emitted.
C15_Witness ==
    /\ Running("reverse") /\ src_idx > 2 /\ Len(stack) = 2
    /\ fully_processed # {} /\ Cardinality(visited) = 2

\* ------------------------------------------------------------ C16
\* A call of _print_dag_recursive is about to be entered at depth max_depth
\* or deeper.
RevEntersAtLimit ==
    /\ Running("reverse") /\ CallPending
    /\ max_depth # NoLimit /\ CalleeDepth >= max_depth

\* C16: in reverse mode with max_depth = d an entry at depth d or more
\* prints nothing, synthesizes nothing, opens no call on a successor and
\* leaves visited and fully_processed as they were; every printed line and
\* every active call is at a depth below d; with max_depth = 0 nothing is
\* ever printed, synthesized or marked processed.
C16_ReverseDepthLimit ==
    /\ []((mode = "reverse" /\ max_depth # NoLimit) =>
            /\ \A i \in 1..Len(output) : LineDepth(output[i]) < max_depth
            /\ \A i \in 1..Len(stack) : stack[i].depth < max_depth
            /\ max_depth = 0 =>
                 /\ output = <<>> /\ synth_calls = <<>>
                 /\ fully_processed = {} /\ generated_code = <<>>)
    /\ [][RevEntersAtLimit =>
            /\ output' = output /\ synth_calls' = synth_calls
            /\ generated_code' = generated_code
            /\ stack' = Advanced(stack)
            /\ visited' = visited
            /\ fully_processed' = fully_processed]_vars

\* With max_depth = 2 on a -> b -> c, a -> c: c is dropped at depth 2 under
\* b and emitted afterwards at depth 1 under a.
C16_Witness ==
    \E a, b, c \in NodeSet :
        /\ succ[a] = <<b, c>> /\ succ[b] = <<c>> /\ succ[c] = <<>>
        /\ ReverseDone /\ max_depth = 2
        /\ EmitSeq = <<b, c, a>>

\* ------------------------------------------------------------ C17
\* The step prints the line of the node on top of the stack.
EmitsTop == Running("reverse") /\ stack # <<>> /\ Len(output') > Len(output)

\* C17: in reverse mode without a depth limit, when a node is emitted each
\* of its successors is already in fully_processed or is in visited, that is
\* the node itself or the node of an enclosing call; the same holds of every
\* processed node from then on, and every processed node has been emitted.
C17_SuccessorsSettled ==
    /\ [][(EmitsTop /\ max_depth = NoLimit) =>
            \A m \in Range(succ[Top.node]) :
                \/ m \in fully_processed
                \/ m \in visited /\ m \in StackNodes]_vars
    /\ []((mode = "reverse" /\ max_depth = NoLimit) =>
            /\ fully_processed \subseteq Emitted
            /\ \A n \in fully_processed : \A m \in Range(succ[n]) :
                 m \in fully_processed \cup visited)

\* A node was emitted while one successor, an ancestor on the path, was not
\* yet processed.
C17_Witness ==
    /\ Running("reverse") /\ max_depth = NoLimit
    /\ \E n \in fully_processed : \E m \in Range(succ[n]) :
         m # n /\ m \in visited /\ m \notin fully_processed

\* ------------------------------------------------------------ C18
\* The nodes some in-degree-0 node reaches, the in-degree-0 nodes included.
FromSources == ReachSet(InDegreeZero)

\* C18: a reverse run only enters, emits, synthesizes and marks processed
\* nodes that some in-degree-0 node reaches. When the graph has no
\* in-degree-0 node the run makes no call, prints nothing, invokes synthesis
\* zero times, raises nothing, and on return has written the empty text as
\* its artifact if code generation was requested and no artifact otherwise.
C18_OnlyFromSources ==
    [](mode = "reverse" =>
         /\ Emitted \subseteq FromSources
         /\ Range(synth_calls) \subseteq FromSources
         /\ fully_processed \cup visited \cup Range(rejected) \subseteq FromSources
         /\ InDegreeZero = {} =>
              /\ stack = <<>> /\ output = <<>> /\ synth_calls = <<>>
              /\ generated_code = <<>> /\ status # "raised"
              /\ status = "done" =>
                   artifact = IF to_generate_code THEN <<>> ELSE Unwritten)

\* A finished code-generating run on the bare cycle a -> b -> c -> a: no
\* source, nothing printed, an empty artifact.
C18_Witness ==
    /\ ReverseDone /\ to_generate_code /\ artifact = <<>>
    /\ \E a, b, c \in NodeSet :
         /\ Cardinality({a, b, c}) = 3
         /\ succ[a] = <<b>> /\ succ[b] = <<c>> /\ succ[c] = <<a>>
    /\ Emitted = {}

\* ------------------------------------------------------------ C19
\* The '(Already visited)' lines printed so far.
AlreadyLines == SelectSeq(output, LAMBDA l : l.kind = "already")

\* The edges that leave a node of S.
OutEdges(S) == {e \in NodeSet \X NodeSet : e[1] \in S /\ Edge(e[1], e[2])}

\* The loop of an active print_dag call is about to examine an edge.
ExaminesEdge ==
    /\ Running("forward") /\ max_depth = NoLimit
    /\ stack # <<>> /\ CallPending

\* C19: a forward walk without a depth limit that has returned printed,
\* with its full label, exactly the nodes reachable from the start node,
\* each once; every edge examined while its target is in visited adds
\* exactly one '(Already visited)' line for that target and every other
\* step adds none, so the finished walk holds one such line for each edge
\* out of a reachable node that is not the edge the target was entered by.
C19_ForwardReachable ==
    /\ []((mode = "forward" /\ max_depth = NoLimit /\ status = "done") =>
            /\ Emitted = ReachSet({start})
            /\ NoDuplicates(EmitSeq)
            /\ \A i \in 1..Len(NodeLines) :
                 NodeLines[i].label = FwdNodeLabel(NodeLines[i].node)
            /\ Len(AlreadyLines) = Cardinality(OutEdges(Emitted))
                                     - (Cardinality(Emitted) - 1))
    /\ [][(mode = "forward" /\ max_depth = NoLimit) =>
            IF ExaminesEdge /\ Callee \in visited
            THEN output' = Append(output,
                     AlreadyLine(CalleePrefix, CalleeIsLast, Callee))
            ELSE AlreadyLines' = AlreadyLines]_vars

\* A finished unlimited walk that met a visited node again and left a node
\* of the graph unreached.
C19_Witness ==
    /\ mode = "forward" /\ status = "done" /\ max_depth = NoLimit
    /\ Len(AlreadyLines) >= 1 /\ Cardinality(Emitted) = 2
    /\ ReachSet({start}) # NodeSet

====
